---- MODULE Spec2Model ----
(***************************************************************************)
(* A model of the scheduler of iflamed/schedule: the frequency resolver,   *)
(* the constraint set and match evaluator, and the task runner with its    *)
(* goroutines, in-flight counter and WaitGroup.                            *)
(***************************************************************************)
EXTENDS Integers, Sequences, FiniteSets, TLC

VARIABLES
    now,        \* s.now: the instant captured by NewScheduler, in a location
    location,   \* s.location: the default location given to NewScheduler
    next,       \* s.Next: the Target (NextTick)
    limit,      \* s.limit: the constraint set (Limit)
    count,      \* s.count: the in-flight counter
    wg,         \* s.wg: the WaitGroup counter
    tasks,      \* the goroutines started by Call, in launch order
    pc,         \* the main goroutine: the operation it performed last
    crashed,    \* TRUE once a panic has escaped its goroutine
    chain,      \* history: the frequency methods called since the last Call (capped)
    fired,      \* history: the instants (s.now) at which Call launched a task
    trigger,    \* the per-minute trigger: the chain it evaluates, its first minute
    whens       \* history: the calls of the When predicate made by that operation

vars == <<now, location, next, limit, count, wg, tasks, pc, crashed, chain, fired, trigger,
          whens>>

-----------------------------------------------------------------------------
(* Bounds of the model.                                                    *)

\* the number of goroutines one scheduler may have launched
MaxTasks == 2
\* the length of limit.DaysOfWeek (the code appends without bound)
MaxDays == 2
\* the value at which the history counter chain stops counting
MaxChain == 2
\* the number of consecutive minutes the per-minute trigger runs for
MaxRun == 1500

-----------------------------------------------------------------------------
(* time.Time: an instant is a number of minutes since 2023-01-01 00:00 UTC *)
(* (a Sunday) together with the offset of the location it is expressed in. *)

IsLeap(y) == (y % 4 = 0 /\ y % 100 # 0) \/ y % 400 = 0

DaysInYear(y) == IF IsLeap(y) THEN 366 ELSE 365

DaysInMonth(y, m) ==
    IF m = 2 THEN (IF IsLeap(y) THEN 29 ELSE 28)
    ELSE IF m \in {4, 6, 9, 11} THEN 30 ELSE 31

RECURSIVE YearFrom(_, _)
YearFrom(d, y) == IF d < DaysInYear(y) THEN y ELSE YearFrom(d - DaysInYear(y), y + 1)

RECURSIVE DayOfYearFrom(_, _)
DayOfYearFrom(d, y) ==
    IF d < DaysInYear(y) THEN d ELSE DayOfYearFrom(d - DaysInYear(y), y + 1)

RECURSIVE MonthFrom(_, _, _)
MonthFrom(d, y, m) ==
    IF d < DaysInMonth(y, m) THEN m ELSE MonthFrom(d - DaysInMonth(y, m), y, m + 1)

RECURSIVE DayFrom(_, _, _)
DayFrom(d, y, m) ==
    IF d < DaysInMonth(y, m) THEN d + 1 ELSE DayFrom(d - DaysInMonth(y, m), y, m + 1)

\* the wall clock of instant n in its location, in minutes since the epoch
Local(n) == n.t + n.off
DayNum(n) == Local(n) \div 1440

Year(n) == YearFrom(DayNum(n), 2023)
Month(n) == MonthFrom(DayOfYearFrom(DayNum(n), 2023), Year(n), 1)
Day(n) == DayFrom(DayOfYearFrom(DayNum(n), 2023), Year(n), 1)
Hour(n) == (Local(n) % 1440) \div 60
Minute(n) == Local(n) % 60
\* time.Weekday: Sunday = 0 ... Saturday = 6
Weekday(n) == DayNum(n) % 7

\* t.In(loc): the same instant expressed in another location
In(n, loc) == [t |-> n.t, off |-> loc]

RECURSIVE DaysBeforeYear(_)
DaysBeforeYear(y) == IF y <= 2023 THEN 0 ELSE DaysInYear(y - 1) + DaysBeforeYear(y - 1)

RECURSIVE DaysBeforeMonth(_, _)
DaysBeforeMonth(y, m) ==
    IF m <= 1 THEN 0 ELSE DaysInMonth(y, m - 1) + DaysBeforeMonth(y, m - 1)

\* the instant of a UTC wall clock (time.Date)
Date(y, m, d, hh, mm) ==
    (DaysBeforeYear(y) + DaysBeforeMonth(y, m) + (d - 1)) * 1440 + hh * 60 + mm

-----------------------------------------------------------------------------
(* Strings are sequences of one-character strings, so that strings.Split   *)
(* and strconv.Atoi / strconv.Itoa are computed as the library does.       *)

Digits == <<"0", "1", "2", "3", "4", "5", "6", "7", "8", "9">>

IsDigit(c) == \E i \in 1..10 : Digits[i] = c

DigitVal(c) == (CHOOSE i \in 1..10 : Digits[i] = c) - 1

RECURSIVE DigitsVal(_)
DigitsVal(s) ==
    IF s = <<>> THEN 0
    ELSE DigitsVal(SubSeq(s, 1, Len(s) - 1)) * 10 + DigitVal(s[Len(s)])

\* strconv.Atoi: an optional sign and at least one digit, nothing else
Atoi(s) ==
    LET body == IF s # <<>> /\ s[1] \in {"+", "-"} THEN Tail(s) ELSE s
        ok == body # <<>> /\ \A i \in 1..Len(body) : IsDigit(body[i])
    IN IF ~ok THEN [err |-> TRUE, v |-> 0]
       ELSE [err |-> FALSE,
             v |-> IF s[1] = "-" THEN 0 - DigitsVal(body) ELSE DigitsVal(body)]

RECURSIVE ItoaNat(_)
ItoaNat(n) ==
    IF n < 10 THEN <<Digits[n + 1]>> ELSE ItoaNat(n \div 10) \o <<Digits[(n % 10) + 1]>>

\* strconv.Itoa
Itoa(n) == IF n < 0 THEN <<"-">> \o ItoaNat(0 - n) ELSE ItoaNat(n)

RECURSIVE SplitFrom(_, _)
SplitFrom(s, cur) ==
    IF s = <<>> THEN <<cur>>
    ELSE IF Head(s) = ":" THEN <<cur>> \o SplitFrom(Tail(s), <<>>)
    ELSE SplitFrom(Tail(s), Append(cur, Head(s)))

\* strings.Split(s, ":")
Split(s) == SplitFrom(s, <<>>)

-----------------------------------------------------------------------------
(* The Target (NextTick) and the frequency resolver.  Every method takes   *)
(* prev, the Target before the call, and n, s.now; it yields the Target    *)
(* after the call.                                                         *)

\* &NextTick{}: the Target of NewScheduler
ZeroTick == [Year |-> 0, Month |-> 0, Day |-> 0, Hour |-> 0, Minute |-> 0, Omit |-> FALSE]

\* a faulty variant: the fresh Target inherits the omit flag of the previous one
initNextTickKeepOmit(prev, n) ==
    [Year |-> Year(n), Month |-> Month(n), Day |-> Day(n), Hour |-> Hour(n),
     Minute |-> 0, Omit |-> prev.Omit]

initNextTick(prev, n) ==
    [Year |-> Year(n), Month |-> Month(n), Day |-> Day(n), Hour |-> Hour(n),
     Minute |-> 0, Omit |-> FALSE]

\* the body shared by EveryTwoMinutes ... EveryThirtyMinutes
everyNMinutes(prev, n, k) ==
    LET tick == initNextTick(prev, n)
    IN IF Minute(n) % k = 0 THEN [tick EXCEPT !.Minute = Minute(n)] ELSE tick

EveryMinute(prev, n) == [initNextTick(prev, n) EXCEPT !.Minute = Minute(n)]
EveryTwoMinutes(prev, n) == everyNMinutes(prev, n, 2)
EveryThreeMinutes(prev, n) == everyNMinutes(prev, n, 3)
EveryFourMinutes(prev, n) == everyNMinutes(prev, n, 4)
EveryFiveMinutes(prev, n) == everyNMinutes(prev, n, 5)
EveryTenMinutes(prev, n) == everyNMinutes(prev, n, 10)
EveryFifteenMinutes(prev, n) == everyNMinutes(prev, n, 15)
\* a faulty variant: the half-hour test is made on the quarter of an hour
EveryThirtyMinutesQuarter(prev, n) == everyNMinutes(prev, n, 15)
EveryThirtyMinutes(prev, n) == everyNMinutes(prev, n, 30)

\* a faulty variant: Hourly fires at the current minute, as EveryMinute does
HourlyNow(prev, n) == [initNextTick(prev, n) EXCEPT !.Minute = Minute(n)]

Hourly(prev, n) == initNextTick(prev, n)

RECURSIVE hourlyAtScan(_, _, _)
hourlyAtScan(tick, t, minute) ==
    IF t = <<>> THEN tick
    ELSE IF Head(t) >= 0 /\ Head(t) = minute
         THEN [tick EXCEPT !.Minute = Head(t), !.Omit = FALSE]
         ELSE hourlyAtScan(tick, Tail(t), minute)

\* a faulty variant: omit is not set before the listed minutes are scanned
HourlyAtNoOmit(prev, n, t) ==
    hourlyAtScan(initNextTick(prev, n), t, Minute(n))

HourlyAt(prev, n, t) ==
    hourlyAtScan([initNextTick(prev, n) EXCEPT !.Omit = TRUE], t, Minute(n))

\* a faulty variant: the parity test is made the other way round
EveryOddHourEven(prev, n) ==
    LET tick == [initNextTick(prev, n) EXCEPT !.Omit = TRUE]
        hour == Hour(n)
    IN IF hour >= 1 /\ hour <= 23 /\ hour % 2 = 0
       THEN [tick EXCEPT !.Hour = hour, !.Omit = FALSE]
       ELSE tick

EveryOddHour(prev, n) ==
    LET tick == [initNextTick(prev, n) EXCEPT !.Omit = TRUE]
        hour == Hour(n)
    IN IF hour >= 1 /\ hour <= 23 /\ hour % 2 # 0
       THEN [tick EXCEPT !.Hour = hour, !.Omit = FALSE]
       ELSE tick

\* a faulty variant: omit is not set when the hour is not a multiple
setHourlyIntervalNoOmit(tick, n, k) ==
    IF Hour(n) % k = 0
    THEN [tick EXCEPT !.Hour = Hour(n), !.Omit = FALSE]
    ELSE tick

setHourlyInterval(tick, n, k) ==
    IF Hour(n) % k = 0
    THEN [tick EXCEPT !.Hour = Hour(n), !.Omit = FALSE]
    ELSE [tick EXCEPT !.Omit = TRUE]

EveryTwoHours(prev, n) == setHourlyInterval(initNextTick(prev, n), n, 2)
EveryThreeHours(prev, n) == setHourlyInterval(initNextTick(prev, n), n, 3)
EveryFourHours(prev, n) == setHourlyInterval(initNextTick(prev, n), n, 4)
EveryFiveHours(prev, n) == setHourlyInterval(initNextTick(prev, n), n, 5)
EverySixHours(prev, n) == setHourlyInterval(initNextTick(prev, n), n, 6)

Daily(prev, n) == [initNextTick(prev, n) EXCEPT !.Hour = 0]

\* a faulty variant: only the hour of a listed time is compared
RECURSIVE setNextTimeHourOnly(_, _, _)
setNextTimeHourOnly(tick, t, n) ==
    IF t = <<>> THEN tick
    ELSE LET hm == Split(Head(t))
             hour == Atoi(hm[1])
             minute == Atoi(hm[2])
         IN IF /\ Len(hm) = 2
               /\ ~hour.err
               /\ ~minute.err
               /\ Hour(n) = hour.v
            THEN [tick EXCEPT !.Hour = Hour(n), !.Minute = Minute(n), !.Omit = FALSE]
            ELSE setNextTimeHourOnly(tick, Tail(t), n)

\* the first string of t that parses as the current hour and minute clears
\* omit; a string that does not parse is skipped
RECURSIVE setNextTime(_, _, _)
setNextTime(tick, t, n) ==
    IF t = <<>> THEN tick
    ELSE LET hm == Split(Head(t))
             hour == Atoi(hm[1])
             minute == Atoi(hm[2])
         IN IF /\ Len(hm) = 2
               /\ ~hour.err
               /\ ~minute.err
               /\ Hour(n) = hour.v
               /\ Minute(n) = minute.v
            THEN [tick EXCEPT !.Hour = Hour(n), !.Minute = Minute(n), !.Omit = FALSE]
            ELSE setNextTime(tick, Tail(t), n)

DailyAt(prev, n, t) ==
    setNextTime([initNextTick(prev, n) EXCEPT !.Hour = 0, !.Minute = 0, !.Omit = TRUE], t, n)

At(prev, n, t) == DailyAt(prev, n, t)

TwiceDaily(prev, n, first, second) ==
    DailyAt(prev, n, <<Itoa(first) \o <<":", "0", "0">>, Itoa(second) \o <<":", "0", "0">>>>)

TwiceDailyAt(prev, n, first, second, offset) ==
    DailyAt(prev, n, <<Itoa(first) \o <<":">> \o Itoa(offset),
                       Itoa(second) \o <<":">> \o Itoa(offset)>>)

\* carbon: the instant of 00:00 on the first day (Sunday) of the week of n
StartOfWeek(n) == [t |-> (DayNum(n) - Weekday(n)) * 1440 - n.off, off |-> n.off]

\* carbon: the first month of the quarter of n
StartOfQuarterMonth(n) == ((Month(n) - 1) \div 3) * 3 + 1

Weekly(prev, n) ==
    LET w == StartOfWeek(n)
    IN [Year |-> Year(w), Month |-> Month(w), Day |-> Day(w), Hour |-> 0, Minute |-> 0,
        Omit |-> FALSE]

\* a faulty variant: the weekday is not tested
WeeklyOnAnyDay(prev, n, d, t) ==
    LET tick == [Year |-> Year(n), Month |-> Month(n), Day |-> 0, Hour |-> 0, Minute |-> 0,
                 Omit |-> TRUE]
    IN setNextTime([tick EXCEPT !.Day = Day(n)], <<t>>, n)

WeeklyOn(prev, n, d, t) ==
    LET tick == [Year |-> Year(n), Month |-> Month(n), Day |-> 0, Hour |-> 0, Minute |-> 0,
                 Omit |-> TRUE]
    IN IF Weekday(n) = d
       THEN setNextTime([tick EXCEPT !.Day = Day(n)], <<t>>, n)
       ELSE tick

Monthly(prev, n) ==
    [Year |-> Year(n), Month |-> Month(n), Day |-> 1, Hour |-> 0, Minute |-> 0,
     Omit |-> FALSE]

MonthlyOn(prev, n, d, t) ==
    LET tick == [Year |-> Year(n), Month |-> Month(n), Day |-> 0, Hour |-> 0, Minute |-> 0,
                 Omit |-> TRUE]
    IN IF Day(n) = d
       THEN setNextTime([tick EXCEPT !.Day = Day(n)], <<t>>, n)
       ELSE tick

TwiceMonthly(prev, n, b, e, t) ==
    LET tick == [Year |-> Year(n), Month |-> Month(n), Day |-> 0, Hour |-> 0, Minute |-> 0,
                 Omit |-> TRUE]
    IN IF Day(n) = b \/ Day(n) = e
       THEN setNextTime([tick EXCEPT !.Day = Day(n)], <<t>>, n)
       ELSE tick

\* a faulty variant: February always ends on the 28th
LastDayOfMonthNoLeap(prev, n, t) ==
    LET tick == [Year |-> Year(n), Month |-> Month(n),
                 Day |-> IF Month(n) = 2 THEN 28 ELSE DaysInMonth(Year(n), Month(n)),
                 Hour |-> 0, Minute |-> 0, Omit |-> TRUE]
    IN IF t # <<>> THEN setNextTime(tick, <<t>>, n) ELSE tick

LastDayOfMonth(prev, n, t) ==
    LET tick == [Year |-> Year(n), Month |-> Month(n), Day |-> DaysInMonth(Year(n), Month(n)),
                 Hour |-> 0, Minute |-> 0, Omit |-> TRUE]
    IN IF t # <<>> THEN setNextTime(tick, <<t>>, n) ELSE tick

\* a faulty variant: the month of now is taken, not that of the start of the quarter
QuarterlyThisMonth(prev, n) ==
    [Year |-> Year(n), Month |-> Month(n), Day |-> 1, Hour |-> 0,
     Minute |-> 0, Omit |-> FALSE]

Quarterly(prev, n) ==
    [Year |-> Year(n), Month |-> StartOfQuarterMonth(n), Day |-> 1, Hour |-> 0,
     Minute |-> 0, Omit |-> FALSE]

Yearly(prev, n) ==
    [Year |-> Year(n), Month |-> 1, Day |-> 1, Hour |-> 0, Minute |-> 0, Omit |-> FALSE]

\* a faulty variant: the month and day are taken from now without the test
YearlyOnAnyDay(prev, n, m, d, t) ==
    LET tick == [Year |-> Year(n), Month |-> Month(n), Day |-> Day(n), Hour |-> 0,
                 Minute |-> 0, Omit |-> TRUE]
    IN IF t # <<>> THEN setNextTime(tick, <<t>>, n) ELSE tick

YearlyOn(prev, n, m, d, t) ==
    LET tick0 == [Year |-> Year(n), Month |-> 0, Day |-> 0, Hour |-> 0, Minute |-> 0,
                  Omit |-> TRUE]
        tick == IF Month(n) = m /\ Day(n) = d
                THEN [tick0 EXCEPT !.Month = Month(n), !.Day = d]
                ELSE tick0
    IN IF t # <<>> THEN setNextTime(tick, <<t>>, n) ELSE tick

\* a call of a frequency method: its name, integer arguments, string arguments
FreqCall(m, a, s) == [m |-> m, a |-> a, s |-> s]

\* the Target after the call g on a scheduler whose Target is prev
Resolve(g, prev, n) ==
    CASE g.m = "EveryMinute" -> EveryMinute(prev, n)
      [] g.m = "EveryTwoMinutes" -> EveryTwoMinutes(prev, n)
      [] g.m = "EveryThreeMinutes" -> EveryThreeMinutes(prev, n)
      [] g.m = "EveryFourMinutes" -> EveryFourMinutes(prev, n)
      [] g.m = "EveryFiveMinutes" -> EveryFiveMinutes(prev, n)
      [] g.m = "EveryTenMinutes" -> EveryTenMinutes(prev, n)
      [] g.m = "EveryFifteenMinutes" -> EveryFifteenMinutes(prev, n)
      [] g.m = "EveryThirtyMinutes" -> EveryThirtyMinutes(prev, n)
      [] g.m = "Hourly" -> Hourly(prev, n)
      [] g.m = "HourlyAt" -> HourlyAt(prev, n, g.a)
      [] g.m = "EveryOddHour" -> EveryOddHour(prev, n)
      [] g.m = "EveryTwoHours" -> EveryTwoHours(prev, n)
      [] g.m = "EveryThreeHours" -> EveryThreeHours(prev, n)
      [] g.m = "EveryFourHours" -> EveryFourHours(prev, n)
      [] g.m = "EveryFiveHours" -> EveryFiveHours(prev, n)
      [] g.m = "EverySixHours" -> EverySixHours(prev, n)
      [] g.m = "Daily" -> Daily(prev, n)
      [] g.m = "DailyAt" -> DailyAt(prev, n, g.s)
      [] g.m = "At" -> At(prev, n, g.s)
      [] g.m = "TwiceDaily" -> TwiceDaily(prev, n, g.a[1], g.a[2])
      [] g.m = "TwiceDailyAt" -> TwiceDailyAt(prev, n, g.a[1], g.a[2], g.a[3])
      [] g.m = "Weekly" -> Weekly(prev, n)
      [] g.m = "WeeklyOn" -> WeeklyOn(prev, n, g.a[1], g.s[1])
      [] g.m = "Monthly" -> Monthly(prev, n)
      [] g.m = "MonthlyOn" -> MonthlyOn(prev, n, g.a[1], g.s[1])
      [] g.m = "TwiceMonthly" -> TwiceMonthly(prev, n, g.a[1], g.a[2], g.s[1])
      [] g.m = "LastDayOfMonth" -> LastDayOfMonth(prev, n, g.s[1])
      [] g.m = "Quarterly" -> Quarterly(prev, n)
      [] g.m = "Yearly" -> Yearly(prev, n)
      [] g.m = "YearlyOn" -> YearlyOn(prev, n, g.a[1], g.a[2], g.s[1])

-----------------------------------------------------------------------------
(* The constraint set (Limit) and the match evaluator.                     *)

\* &Limit{}: the constraint set of NewScheduler; When is "nil" or the name of
\* a predicate: "true" always holds, "false" never does, "panic" panics
ZeroLimit ==
    [DaysOfWeek |-> <<>>, StartTime |-> <<>>, EndTime |-> <<>>, IsBetween |-> FALSE,
     When |-> "nil"]

\* a faulty variant: the omit flag is not consulted
isTimeMatchedIgnoreOmit(tick, n) ==
    /\ tick.Year = Year(n)
    /\ tick.Month = Month(n)
    /\ tick.Day = Day(n)
    /\ tick.Hour = Hour(n)
    /\ tick.Minute = Minute(n)

\* a faulty variant: a Target that was never resolved matches every instant
isTimeMatchedUnset(tick, n) ==
    IF tick.Omit THEN FALSE
    ELSE IF tick.Year = 0 /\ tick.Month = 0 /\ tick.Day = 0 THEN TRUE
    ELSE /\ tick.Year = Year(n)
         /\ tick.Month = Month(n)
         /\ tick.Day = Day(n)
         /\ tick.Hour = Hour(n)
         /\ tick.Minute = Minute(n)

isTimeMatched(tick, n) ==
    IF tick.Omit THEN FALSE
    ELSE /\ tick.Year = Year(n)
         /\ tick.Month = Month(n)
         /\ tick.Day = Day(n)
         /\ tick.Hour = Hour(n)
         /\ tick.Minute = Minute(n)

\* a faulty variant: the hour parsed is kept when the minute does not parse
timeToMinutesKeepHour(t) ==
    LET hm == Split(t)
        hour == Atoi(hm[1])
        minute == Atoi(hm[2])
    IN IF Len(hm) # 2 THEN [hour |-> 0, minute |-> 0]
       ELSE IF hour.err THEN [hour |-> 0, minute |-> 0]
       ELSE IF minute.err THEN [hour |-> hour.v, minute |-> 0]
       ELSE [hour |-> hour.v, minute |-> minute.v]

timeToMinutes(t) ==
    LET hm == Split(t)
        hour == Atoi(hm[1])
        minute == Atoi(hm[2])
    IN IF Len(hm) # 2 THEN [hour |-> 0, minute |-> 0]
       ELSE IF hour.err \/ minute.err THEN [hour |-> 0, minute |-> 0]
       ELSE [hour |-> hour.v, minute |-> minute.v]

\* a faulty variant: only the weekday appended last is compared
inDaysLast(lim, n) ==
    Len(lim.DaysOfWeek) > 0 =>
        lim.DaysOfWeek[Len(lim.DaysOfWeek)] = Weekday(n)

\* step 1 of checkLimit: the weekday filter
inDays(lim, n) ==
    Len(lim.DaysOfWeek) > 0 =>
        \E i \in 1..Len(lim.DaysOfWeek) : lim.DaysOfWeek[i] = Weekday(n)

\* a faulty variant: the boundary minutes of a Between window are refused
inWindowOpen(lim, n) ==
    LET st == IF lim.StartTime # <<>> THEN timeToMinutes(lim.StartTime)
              ELSE [hour |-> 0, minute |-> 0]
        en == IF lim.EndTime # <<>> THEN timeToMinutes(lim.EndTime)
              ELSE [hour |-> 0, minute |-> 0]
        s0 == st.hour * 60 + st.minute
        e0 == en.hour * 60 + en.minute
        startMinute == IF s0 > e0 THEN e0 ELSE s0
        endMinute == IF s0 > e0 THEN s0 ELSE e0
        minuteOffset == Hour(n) * 60 + Minute(n)
    IN IF lim.IsBetween /\ (minuteOffset <= startMinute \/ minuteOffset >= endMinute)
       THEN FALSE
       ELSE IF ~lim.IsBetween /\ minuteOffset > startMinute /\ minuteOffset < endMinute
       THEN FALSE
       ELSE TRUE

\* a faulty variant: the boundary minutes of an UnlessBetween window are refused
inWindowClosedUnless(lim, n) ==
    LET st == IF lim.StartTime # <<>> THEN timeToMinutes(lim.StartTime)
              ELSE [hour |-> 0, minute |-> 0]
        en == IF lim.EndTime # <<>> THEN timeToMinutes(lim.EndTime)
              ELSE [hour |-> 0, minute |-> 0]
        s0 == st.hour * 60 + st.minute
        e0 == en.hour * 60 + en.minute
        startMinute == IF s0 > e0 THEN e0 ELSE s0
        endMinute == IF s0 > e0 THEN s0 ELSE e0
        minuteOffset == Hour(n) * 60 + Minute(n)
    IN IF lim.IsBetween /\ (minuteOffset < startMinute \/ minuteOffset > endMinute)
       THEN FALSE
       ELSE IF ~lim.IsBetween /\ minuteOffset >= startMinute /\ minuteOffset <= endMinute
       THEN FALSE
       ELSE TRUE

\* a faulty variant: a start later than the end is not swapped with it
inWindowNoSwap(lim, n) ==
    LET st == IF lim.StartTime # <<>> THEN timeToMinutes(lim.StartTime)
              ELSE [hour |-> 0, minute |-> 0]
        en == IF lim.EndTime # <<>> THEN timeToMinutes(lim.EndTime)
              ELSE [hour |-> 0, minute |-> 0]
        startMinute == st.hour * 60 + st.minute
        endMinute == en.hour * 60 + en.minute
        minuteOffset == Hour(n) * 60 + Minute(n)
    IN IF lim.IsBetween /\ (minuteOffset < startMinute \/ minuteOffset > endMinute)
       THEN FALSE
       ELSE IF ~lim.IsBetween /\ minuteOffset > startMinute /\ minuteOffset < endMinute
       THEN FALSE
       ELSE TRUE

\* a faulty variant: the mode of the window is read the other way round
inWindowInverted(lim, n) ==
    LET st == IF lim.StartTime # <<>> THEN timeToMinutes(lim.StartTime)
              ELSE [hour |-> 0, minute |-> 0]
        en == IF lim.EndTime # <<>> THEN timeToMinutes(lim.EndTime)
              ELSE [hour |-> 0, minute |-> 0]
        s0 == st.hour * 60 + st.minute
        e0 == en.hour * 60 + en.minute
        startMinute == IF s0 > e0 THEN e0 ELSE s0
        endMinute == IF s0 > e0 THEN s0 ELSE e0
        minuteOffset == Hour(n) * 60 + Minute(n)
    IN IF ~lim.IsBetween /\ (minuteOffset < startMinute \/ minuteOffset > endMinute)
       THEN FALSE
       ELSE IF lim.IsBetween /\ minuteOffset > startMinute /\ minuteOffset < endMinute
       THEN FALSE
       ELSE TRUE

\* steps 2 and 3 of checkLimit: the time window
inWindow(lim, n) ==
    LET st == IF lim.StartTime # <<>> THEN timeToMinutes(lim.StartTime)
              ELSE [hour |-> 0, minute |-> 0]
        en == IF lim.EndTime # <<>> THEN timeToMinutes(lim.EndTime)
              ELSE [hour |-> 0, minute |-> 0]
        s0 == st.hour * 60 + st.minute
        e0 == en.hour * 60 + en.minute
        startMinute == IF s0 > e0 THEN e0 ELSE s0
        endMinute == IF s0 > e0 THEN s0 ELSE e0
        minuteOffset == Hour(n) * 60 + Minute(n)
    IN IF lim.IsBetween /\ (minuteOffset < startMinute \/ minuteOffset > endMinute)
       THEN FALSE
       ELSE IF ~lim.IsBetween /\ minuteOffset > startMinute /\ minuteOffset < endMinute
       THEN FALSE
       ELSE TRUE

\* the value checkLimit returns; when the predicate panics it returns none,
\* and nothing is launched
checkLimit(lim, n) ==
    IF ~inDays(lim, n) THEN FALSE
    ELSE IF ~inWindow(lim, n) THEN FALSE
    ELSE IF lim.When # "nil" THEN lim.When = "true"
    ELSE TRUE

\* Call reaches s.limit.When(s.ctx): the Target matches, the weekday filter and
\* the time window pass and a predicate is set
whenReached(tick, lim, n) ==
    /\ isTimeMatched(tick, n)
    /\ inDays(lim, n)
    /\ inWindow(lim, n)
    /\ lim.When # "nil"

\* the predicate panics on the goroutine of the caller of Call
whenPanics(tick, lim, n) == whenReached(tick, lim, n) /\ lim.When = "panic"

\* a faulty variant: the weekdays replace those added before
DaysReplace(lim, d) == [lim EXCEPT !.DaysOfWeek = d]

\* the constraint methods: lim is the constraint set before the call
Days(lim, d) == [lim EXCEPT !.DaysOfWeek = @ \o d]
Weekdays(lim) == Days(lim, <<1, 2, 3, 4, 5>>)
Weekends(lim) == Days(lim, <<6, 0>>)
Mondays(lim) == Days(lim, <<1>>)
Tuesdays(lim) == Days(lim, <<2>>)
Wednesdays(lim) == Days(lim, <<3>>)
Thursdays(lim) == Days(lim, <<4>>)
Fridays(lim) == Days(lim, <<5>>)
Saturdays(lim) == Days(lim, <<6>>)
Sundays(lim) == Days(lim, <<0>>)

Between(lim, start, end) ==
    [lim EXCEPT !.StartTime = start, !.EndTime = end, !.IsBetween = TRUE]

UnlessBetween(lim, start, end) ==
    [lim EXCEPT !.StartTime = start, !.EndTime = end, !.IsBetween = FALSE]

When(lim, when) == [lim EXCEPT !.When = when]

\* a call of a constraint method: its name, weekdays, strings, predicate
LimitCall(m, d, s, w) == [m |-> m, d |-> d, s |-> s, w |-> w]

\* the constraint set after the call c on a scheduler whose constraint set is lim
Constrain(c, lim) ==
    CASE c.m = "Weekdays" -> Weekdays(lim)
      [] c.m = "Weekends" -> Weekends(lim)
      [] c.m = "Mondays" -> Mondays(lim)
      [] c.m = "Tuesdays" -> Tuesdays(lim)
      [] c.m = "Wednesdays" -> Wednesdays(lim)
      [] c.m = "Thursdays" -> Thursdays(lim)
      [] c.m = "Fridays" -> Fridays(lim)
      [] c.m = "Saturdays" -> Saturdays(lim)
      [] c.m = "Sundays" -> Sundays(lim)
      [] c.m = "Days" -> Days(lim, c.d)
      [] c.m = "Between" -> Between(lim, c.s[1], c.s[2])
      [] c.m = "UnlessBetween" -> UnlessBetween(lim, c.s[1], c.s[2])
      [] c.m = "When" -> When(lim, c.w)

-----------------------------------------------------------------------------
(* The inputs the specifications draw from.                                *)

UTC == 0
Shanghai == 480

\* what a task body does: it returns, it panics, or it never terminates
Kinds == {"return", "panic", "forever"}

\* the ways a body ends: it returns, it panics with a value, it calls panic(nil)
FaultKinds == {"return", "panic", "panic(nil)"}

T0000 == <<"0", "0", ":", "0", "0">>
T0900 == <<"0", "9", ":", "0", "0">>
T1530 == <<"1", "5", ":", "3", "0">>
T1700 == <<"1", "7", ":", "0", "0">>
T2359 == <<"2", "3", ":", "5", "9">>
T0030 == <<"0", "0", ":", "3", "0">>
T0800 == <<"8", ":", "0", "0">>
T1300 == <<"1", "3", ":", "0", "0">>
T1701 == <<"1", "7", ":", "0", "1">>
TNoColon == <<"0", "0", "0", "0">>
TTwoColons == <<"0", "0", ":", "0", "0", ":", "0", "0">>
TBad == <<"a", ":", "b">>
TA1 == <<"a", ":", "1">>
T1B == <<"1", ":", "b">>
T11 == <<"1", ":", "1">>
THourOnly == <<"9", ":">>
TBeforeMidnight == <<"-", "1", ":", "3", "0">>

-----------------------------------------------------------------------------
(* The main goroutine: builder calls, Call and Start.                      *)

\* the main goroutine is not blocked in Start, nor unwound by a panic that Call
\* let through
MainReady == pc \notin {"Start", "raised"} /\ ~crashed

\* a frequency method
Frequency(g) ==
    /\ MainReady
    /\ pc' = g.m
    /\ next' = Resolve(g, next, now)
    /\ chain' = IF chain < MaxChain THEN chain + 1 ELSE chain
    /\ whens' = 0
    /\ UNCHANGED <<now, location, limit, count, wg, tasks, crashed, fired, trigger>>

\* a constraint method, while limit.DaysOfWeek holds at most k weekdays
ConstraintUpTo(c, k) ==
    /\ MainReady
    /\ Len(Constrain(c, limit).DaysOfWeek) <= k
    /\ limit' = Constrain(c, limit)
    /\ pc' = c.m
    /\ whens' = 0
    /\ UNCHANGED <<now, location, next, count, wg, tasks, crashed, chain, fired, trigger>>

\* a constraint method
Constraint(c) == ConstraintUpTo(c, MaxDays)

\* a faulty variant: the wall clock is kept and the instant moves
TimezoneKeepWallClock(loc) ==
    /\ MainReady
    /\ now' = [t |-> now.t + now.off - loc, off |-> loc]
    /\ pc' = "Timezone"
    /\ whens' = 0
    /\ UNCHANGED <<location, next, limit, count, wg, tasks, crashed, chain, fired, trigger>>

\* a faulty variant: the Target is initialised again in the new location
TimezoneInitNextTick(loc) ==
    /\ MainReady
    /\ now' = In(now, loc)
    /\ next' = initNextTick(next, In(now, loc))
    /\ pc' = "Timezone"
    /\ whens' = 0
    /\ UNCHANGED <<location, limit, count, wg, tasks, crashed, chain, fired, trigger>>

Timezone(loc) ==
    /\ MainReady
    /\ now' = In(now, loc)
    /\ pc' = "Timezone"
    /\ whens' = 0
    /\ UNCHANGED <<location, next, limit, count, wg, tasks, crashed, chain, fired, trigger>>

\* the goroutine Call starts for a task whose body behaves as kind; runs, errs
\* and e are history: the times t.Run began, the calls of s.log.Error and the
\* value handed to the last of them
NewTask(kind) == [kind |-> kind, st |-> "pending", errs |-> 0, e |-> "none", runs |-> 0]

\* a faulty variant: the constraint set is not consulted
CallNoLimit(kind) ==
    /\ MainReady
    /\ UNCHANGED <<location, next, limit, crashed, trigger>>
    /\ chain' = 0
    /\ now' = In(now, location)
    /\ whens' = IF whenReached(next, limit, now) THEN 1 ELSE 0
    /\ IF isTimeMatched(next, now)
       THEN /\ Len(tasks) < MaxTasks
            /\ count' = count + 1
            /\ wg' = wg + 1
            /\ tasks' = Append(tasks, NewTask(kind))
            /\ fired' = fired \cup {now.t}
            /\ pc' = "launched"
       ELSE /\ pc' = IF whenPanics(next, limit, now) THEN "raised" ELSE "skipped"
            /\ UNCHANGED <<count, wg, tasks, fired>>

\* a faulty variant: the launch resets the constraint set for the next chain
CallResetLimit(kind) ==
    /\ MainReady
    /\ UNCHANGED <<location, next, crashed, trigger>>
    /\ chain' = 0
    /\ now' = In(now, location)
    /\ whens' = IF whenReached(next, limit, now) THEN 1 ELSE 0
    /\ limit' = ZeroLimit
    /\ IF isTimeMatched(next, now) /\ checkLimit(limit, now)
       THEN /\ Len(tasks) < MaxTasks
            /\ count' = count + 1
            /\ wg' = wg + 1
            /\ tasks' = Append(tasks, NewTask(kind))
            /\ fired' = fired \cup {now.t}
            /\ pc' = "launched"
       ELSE /\ pc' = IF whenPanics(next, limit, now) THEN "raised" ELSE "skipped"
            /\ UNCHANGED <<count, wg, tasks, fired>>

\* a faulty variant: the launch waits for the tasks launched before it
CallSerial(kind) ==
    /\ MainReady
    /\ UNCHANGED <<location, next, limit, crashed, trigger>>
    /\ chain' = 0
    /\ now' = In(now, location)
    /\ whens' = IF whenReached(next, limit, now) THEN 1 ELSE 0
    /\ IF isTimeMatched(next, now) /\ checkLimit(limit, now)
       THEN /\ Len(tasks) < MaxTasks
            /\ wg = 0
            /\ count' = count + 1
            /\ wg' = wg + 1
            /\ tasks' = Append(tasks, NewTask(kind))
            /\ fired' = fired \cup {now.t}
            /\ pc' = "launched"
       ELSE /\ pc' = IF whenPanics(next, limit, now) THEN "raised" ELSE "skipped"
            /\ UNCHANGED <<count, wg, tasks, fired>>

\* a faulty variant: the predicate is called before the Target is compared
CallWhenFirst(kind) ==
    /\ MainReady
    /\ UNCHANGED <<location, next, limit, crashed, trigger>>
    /\ chain' = 0
    /\ now' = In(now, location)
    /\ whens' = IF limit.When # "nil" THEN 1 ELSE 0
    /\ IF isTimeMatched(next, now) /\ checkLimit(limit, now)
       THEN /\ Len(tasks) < MaxTasks
            /\ count' = count + 1
            /\ wg' = wg + 1
            /\ tasks' = Append(tasks, NewTask(kind))
            /\ fired' = fired \cup {now.t}
            /\ pc' = "launched"
       ELSE /\ pc' = IF limit.When = "panic" THEN "raised" ELSE "skipped"
            /\ UNCHANGED <<count, wg, tasks, fired>>

\* a faulty variant: the current time rolls back to UTC
CallRollbackUTC(kind) ==
    /\ MainReady
    /\ UNCHANGED <<location, next, limit, crashed, trigger>>
    /\ chain' = 0
    /\ now' = In(now, UTC)
    /\ whens' = IF whenReached(next, limit, now) THEN 1 ELSE 0
    /\ IF isTimeMatched(next, now) /\ checkLimit(limit, now)
       THEN /\ Len(tasks) < MaxTasks
            /\ count' = count + 1
            /\ wg' = wg + 1
            /\ tasks' = Append(tasks, NewTask(kind))
            /\ fired' = fired \cup {now.t}
            /\ pc' = "launched"
       ELSE /\ pc' = IF whenPanics(next, limit, now) THEN "raised" ELSE "skipped"
            /\ UNCHANGED <<count, wg, tasks, fired>>

\* Call(t), and CallFunc(fn), which wraps fn in a DefaultTask and calls Call
Call(kind) ==
    /\ MainReady
    /\ UNCHANGED <<location, next, limit, crashed, trigger>>
    /\ chain' = 0
    /\ now' = In(now, location)
    /\ whens' = IF whenReached(next, limit, now) THEN 1 ELSE 0
    /\ IF isTimeMatched(next, now) /\ checkLimit(limit, now)
       THEN /\ Len(tasks) < MaxTasks
            /\ count' = count + 1
            /\ wg' = wg + 1
            /\ tasks' = Append(tasks, NewTask(kind))
            /\ fired' = fired \cup {now.t}
            /\ pc' = "launched"
       ELSE /\ pc' = IF whenPanics(next, limit, now) THEN "raised" ELSE "skipped"
            /\ UNCHANGED <<count, wg, tasks, fired>>

\* Start: the load of the counter and the entry into wg.Wait()
StartBegin ==
    /\ MainReady
    /\ pc' = "Start"
    /\ whens' = 0
    /\ UNCHANGED <<now, location, next, limit, count, wg, tasks, crashed, chain, fired, trigger>>

\* a faulty variant: Start does not wait
StartReturnNoWait ==
    /\ pc = "Start"
    /\ ~crashed
    /\ pc' = "StartReturned"
    /\ UNCHANGED <<now, location, next, limit, count, wg, tasks, crashed, chain, fired, trigger, whens>>

\* Start: wg.Wait() returns once the WaitGroup counter is zero
StartReturn ==
    /\ pc = "Start"
    /\ ~crashed
    /\ wg = 0
    /\ pc' = "StartReturned"
    /\ UNCHANGED <<now, location, next, limit, count, wg, tasks, crashed, chain, fired, trigger, whens>>

-----------------------------------------------------------------------------
(* The goroutine of task i: the body, then the deferred function, which    *)
(* calls wg.Done(), decrements the counter and recovers.                   *)

Live(i) == i \in 1..Len(tasks) /\ ~crashed

SetSt(i, st) == tasks' = [tasks EXCEPT ![i].st = st]

\* the goroutine is scheduled and t.Run(s.ctx) begins
TaskRun(i) ==
    /\ Live(i)
    /\ tasks[i].st = "pending"
    /\ tasks' = [tasks EXCEPT ![i].st = "running", ![i].runs = @ + 1]
    /\ UNCHANGED <<now, location, next, limit, count, wg, pc, crashed, chain, fired, trigger, whens>>

\* the body ends: it returns or it panics
TaskExit(i) ==
    /\ Live(i)
    /\ tasks[i].st = "running"
    /\ tasks[i].kind # "forever"
    /\ SetSt(i, "exited")
    /\ UNCHANGED <<now, location, next, limit, count, wg, pc, crashed, chain, fired, trigger, whens>>

\* a faulty variant: a panicking task does not signal the WaitGroup
TaskDoneUnlessPanic(i) ==
    /\ Live(i)
    /\ tasks[i].st = "exited"
    /\ wg' = IF tasks[i].kind = "panic" THEN wg ELSE wg - 1
    /\ SetSt(i, "signalled")
    /\ UNCHANGED <<now, location, next, limit, count, pc, crashed, chain, fired, trigger, whens>>

\* s.wg.Done()
TaskDone(i) ==
    /\ Live(i)
    /\ tasks[i].st = "exited"
    /\ wg' = wg - 1
    /\ SetSt(i, "signalled")
    /\ UNCHANGED <<now, location, next, limit, count, pc, crashed, chain, fired, trigger, whens>>

\* a faulty variant: the counter is not decremented for a panicking task
TaskDecrementUnlessPanic(i) ==
    /\ Live(i)
    /\ tasks[i].st = "signalled"
    /\ count' = IF tasks[i].kind = "panic" THEN count ELSE count - 1
    /\ SetSt(i, "decremented")
    /\ UNCHANGED <<now, location, next, limit, wg, pc, crashed, chain, fired, trigger, whens>>

\* atomic.AddInt32(&s.count, -1)
TaskDecrement(i) ==
    /\ Live(i)
    /\ tasks[i].st = "signalled"
    /\ count' = count - 1
    /\ SetSt(i, "decremented")
    /\ UNCHANGED <<now, location, next, limit, wg, pc, crashed, chain, fired, trigger, whens>>

\* a faulty variant: the deferred function does not recover
TaskRecoverNone(i) ==
    /\ Live(i)
    /\ tasks[i].st = "decremented"
    /\ IF tasks[i].kind = "panic"
       THEN crashed' = TRUE /\ UNCHANGED tasks
       ELSE SetSt(i, "finished") /\ UNCHANGED crashed
    /\ UNCHANGED <<now, location, next, limit, count, wg, pc, chain, fired, trigger, whens>>

\* what recover() can return in the deferred function of a body of that kind:
\* the value of the panic, "nil" when the body returned; for panic(nil) it is
\* nil or a *runtime.PanicNilError, as the Go version of the build decides
Recovered(kind) ==
    CASE kind = "panic" -> {"boom"}
      [] kind = "panic(nil)" -> {"nil", "PanicNilError"}
      [] OTHER -> {"nil"}

\* recover(): a panic whose value is not nil is reported through s.log.Error
\* with that value, and goes no further
TaskRecover(i) ==
    /\ Live(i)
    /\ tasks[i].st = "decremented"
    /\ \E r \in Recovered(tasks[i].kind) :
          IF r # "nil"
          THEN tasks' = [tasks EXCEPT ![i].st = "faulted", ![i].errs = @ + 1, ![i].e = r]
          ELSE SetSt(i, "finished")
    /\ UNCHANGED <<now, location, next, limit, count, wg, pc, crashed, chain, fired, trigger, whens>>

-----------------------------------------------------------------------------
(* The per-minute trigger: each minute a fresh scheduler is constructed    *)
(* with that minute's now, the chain is evaluated and Call is issued.      *)

\* no trigger: the scheduler is constructed once
NoTrigger == [chain |-> FreqCall("none", <<>>, <<>>), first |-> 0]

Triggered == trigger.chain.m # "none"

\* NewScheduler, one minute after the previous evaluation
Tick ==
    /\ Triggered
    /\ pc \in {"launched", "skipped"}
    /\ now.t + 1 - trigger.first < MaxRun
    /\ now' = [t |-> now.t + 1, off |-> location]
    /\ next' = ZeroTick
    /\ limit' = ZeroLimit
    /\ count' = 0
    /\ wg' = 0
    /\ tasks' = <<>>
    /\ pc' = "NewScheduler"
    /\ chain' = 0
    /\ whens' = 0
    /\ UNCHANGED <<location, crashed, fired, trigger>>

\* the chain of the trigger: its frequency method ...
TickFrequency ==
    /\ Triggered
    /\ pc = "NewScheduler"
    /\ Frequency(trigger.chain)

\* ... and its Call
TickCall ==
    /\ Triggered
    /\ pc = trigger.chain.m
    /\ Call("return")

-----------------------------------------------------------------------------
(* Specifications.                                                         *)

Locations == {UTC, Shanghai}

\* NewScheduler(ctx, loc) at the instant t
NewScheduler(t, loc) ==
    /\ now = [t |-> t, off |-> loc]
    /\ location = loc
    /\ next = ZeroTick
    /\ limit = ZeroLimit
    /\ count = 0
    /\ wg = 0
    /\ tasks = <<>>
    /\ pc = "NewScheduler"
    /\ crashed = FALSE
    /\ chain = 0
    /\ fired = {}
    /\ whens = 0

\* ---- the task runner: few builder calls, every goroutine step
Instants == {Date(2024, 2, 29, 15, 30), Date(2024, 3, 1, 0, 0)}

Freqs == {FreqCall("EveryMinute", <<>>, <<>>), FreqCall("Hourly", <<>>, <<>>)}

Limits == {LimitCall("When", <<>>, <<>>, "false"), LimitCall("When", <<>>, <<>>, "nil")}

Init ==
    /\ \E t \in Instants : NewScheduler(t, UTC)
    /\ trigger = NoTrigger

Next ==
    \/ \E g \in Freqs : Frequency(g)
    \/ \E c \in Limits : Constraint(c)
    \/ \E k \in Kinds : Call(k)
    \/ StartBegin
    \/ StartReturn
    \/ \E i \in 1..MaxTasks : TaskRun(i)
    \/ \E i \in 1..MaxTasks : TaskExit(i)
    \/ \E i \in 1..MaxTasks : TaskDone(i)
    \/ \E i \in 1..MaxTasks : TaskDecrement(i)
    \/ \E i \in 1..MaxTasks : TaskRecover(i)

Spec == Init /\ [][Next]_vars

\* the goroutines are scheduled fairly, and so is the main goroutine in Start
Fairness ==
    /\ WF_vars(StartReturn)
    /\ \A i \in 1..MaxTasks :
        /\ WF_vars(TaskRun(i))
        /\ WF_vars(TaskExit(i))
        /\ WF_vars(TaskDone(i))
        /\ WF_vars(TaskDecrement(i))
        /\ WF_vars(TaskRecover(i))

SpecLive == Init /\ [][Next]_vars /\ Fairness

\* ---- the frequency resolver: every method, at a few instants
FreqDays == {<<2023, 12, 31>>, <<2024, 1, 1>>, <<2024, 2, 29>>}

FreqHours == {0, 15}

FreqMinutes == {0, 17, 30, 31}

FreqInstants ==
    {Date(d[1], d[2], d[3], h, m) : d \in FreqDays, h \in FreqHours, m \in FreqMinutes}

MinuteFreqs ==
    {FreqCall(m, <<>>, <<>>) :
        m \in {"EveryMinute", "EveryTwoMinutes", "EveryThreeMinutes", "EveryFourMinutes",
               "EveryFiveMinutes", "EveryTenMinutes", "EveryFifteenMinutes",
               "EveryThirtyMinutes"}}

AllFreqs ==
    MinuteFreqs
    \cup {FreqCall(m, <<>>, <<>>) :
            m \in {"Hourly", "EveryOddHour", "EveryTwoHours", "EveryThreeHours",
                   "EveryFourHours", "EveryFiveHours", "EverySixHours", "Daily",
                   "Weekly", "Monthly", "Quarterly", "Yearly"}}
    \cup {FreqCall("HourlyAt", <<0, 17>>, <<>>),
          FreqCall("DailyAt", <<>>, <<T0900, T1530>>),
          FreqCall("DailyAt", <<>>, <<TBad, T0000>>),
          FreqCall("At", <<>>, <<T1530>>),
          FreqCall("TwiceDaily", <<0, 15>>, <<>>),
          FreqCall("TwiceDailyAt", <<0, 15, 30>>, <<>>),
          FreqCall("WeeklyOn", <<4>>, <<T1530>>),
          FreqCall("MonthlyOn", <<29>>, <<T1530>>),
          FreqCall("TwiceMonthly", <<1, 29>>, <<T0000>>),
          FreqCall("LastDayOfMonth", <<>>, <<T1530>>),
          FreqCall("YearlyOn", <<2, 29>>, <<T1530>>)}

InitFreq ==
    /\ \E t \in FreqInstants : NewScheduler(t, UTC)
    /\ trigger = NoTrigger

NextFreq ==
    \/ \E g \in AllFreqs : Frequency(g)
    \/ Call("return")

SpecFreq == InitFreq /\ [][NextFreq]_vars

\* ---- the minute cadences: every minute of two hours
MinuteInstants == {Date(2024, 2, 29, h, m) : h \in FreqHours, m \in 0..59}

InitMinutes ==
    /\ \E t \in MinuteInstants : NewScheduler(t, UTC)
    /\ trigger = NoTrigger

NextMinutes ==
    \/ \E g \in MinuteFreqs \cup {FreqCall("Hourly", <<>>, <<>>)} : Frequency(g)
    \/ Call("return")

SpecMinutes == InitMinutes /\ [][NextMinutes]_vars

\* ---- the evaluator: builder calls of every kind, then Call
EvalInstants == {Date(2024, 2, 29, 15, 30)}

EvalFreqs ==
    {FreqCall("EveryMinute", <<>>, <<>>), FreqCall("Hourly", <<>>, <<>>),
     FreqCall("DailyAt", <<>>, <<T1530>>)}

EvalLimits ==
    {LimitCall("Thursdays", <<>>, <<>>, "nil"),
     LimitCall("Weekends", <<>>, <<>>, "nil"),
     LimitCall("Between", <<>>, <<T0900, T1700>>, "nil"),
     LimitCall("Between", <<>>, <<T1530, TBad>>, "nil"),
     LimitCall("UnlessBetween", <<>>, <<T1700, T0900>>, "nil"),
     LimitCall("When", <<>>, <<>>, "true"),
     LimitCall("When", <<>>, <<>>, "false")}

InitEval ==
    /\ \E t \in EvalInstants, loc \in Locations : NewScheduler(t, loc)
    /\ trigger = NoTrigger

NextEval ==
    \/ \E g \in EvalFreqs : Frequency(g)
    \/ \E c \in EvalLimits : Constraint(c)
    \/ \E loc \in Locations : Timezone(loc)
    \/ Call("return")

SpecEval == InitEval /\ [][NextEval]_vars

\* ---- the per-minute trigger
TriggerStarts == {Date(2023, 12, 31, 23, 30), Date(2024, 2, 29, 14, 59)}

TriggerChains == {FreqCall("Hourly", <<>>, <<>>), FreqCall("Daily", <<>>, <<>>)}

InitTrigger ==
    \E t \in TriggerStarts, loc \in Locations, g \in TriggerChains :
        /\ NewScheduler(t, loc)
        /\ trigger = [chain |-> g, first |-> t]

NextTrigger ==
    \/ TickFrequency
    \/ TickCall
    \/ Tick

SpecTrigger == InitTrigger /\ [][NextTrigger]_vars

\* ---- one evaluation of the trigger: a fresh scheduler at a given minute,
\* ---- the frequency method of the chain, then Call
InitCadence(instants, chains) ==
    \E t \in instants, loc \in Locations, g \in chains :
        /\ NewScheduler(t, loc)
        /\ trigger = [chain |-> g, first |-> t]

NextCadence ==
    \/ TickFrequency
    \/ TickCall

\* every minute of a day
DayMinutes == {Date(2024, 2, 29, h, m) : h \in 0..23, m \in 0..59}

\* ---- the hour cadences, at every minute of a day
HourChains ==
    {FreqCall(m, <<>>, <<>>) :
        m \in {"EveryOddHour", "EveryTwoHours", "EveryThreeHours", "EveryFourHours",
               "EveryFiveHours", "EverySixHours"}}
    \cup {FreqCall("HourlyAt", <<0, 1, 2, 3>>, <<>>),
          FreqCall("HourlyAt", <<17>>, <<>>),
          FreqCall("HourlyAt", <<0 - 1, 45, 17, 45>>, <<>>),
          FreqCall("HourlyAt", <<>>, <<>>)}

SpecHours == InitCadence(DayMinutes, HourChains) /\ [][NextCadence]_vars

\* ---- the times of day, at every minute of a day
DailyChains ==
    {FreqCall("DailyAt", <<>>, <<T0030, T1701>>),
     FreqCall("DailyAt", <<>>, <<T0800, T1530, T0800>>),
     FreqCall("DailyAt", <<>>, <<T0000>>),
     FreqCall("DailyAt", <<>>, <<>>),
     FreqCall("At", <<>>, <<T1300>>),
     FreqCall("At", <<>>, <<T2359, T0900>>),
     FreqCall("TwiceDaily", <<1, 13>>, <<>>),
     FreqCall("TwiceDaily", <<0, 0>>, <<>>),
     FreqCall("TwiceDailyAt", <<1, 13, 15>>, <<>>),
     FreqCall("TwiceDailyAt", <<0, 23, 5>>, <<>>)}

\* the same methods given a string that is not a time of day
MalformedChains ==
    {FreqCall("DailyAt", <<>>, <<TBad>>),
     FreqCall("DailyAt", <<>>, <<TNoColon>>),
     FreqCall("At", <<>>, <<TTwoColons>>)}

SpecDaily == InitCadence(DayMinutes, DailyChains \cup MalformedChains) /\ [][NextCadence]_vars

\* ---- the calendar cadences, at a few times of the days around the ends of
\* ---- weeks, months, quarters and years
CalendarDays ==
    {<<2023, 2, 28>>, <<2023, 3, 1>>, <<2023, 12, 30>>, <<2023, 12, 31>>,
     <<2024, 1, 1>>, <<2024, 1, 2>>, <<2024, 1, 3>>, <<2024, 1, 4>>, <<2024, 1, 5>>,
     <<2024, 1, 6>>, <<2024, 1, 7>>, <<2024, 1, 15>>, <<2024, 1, 16>>,
     <<2024, 2, 28>>, <<2024, 2, 29>>, <<2024, 3, 1>>, <<2024, 3, 31>>, <<2024, 4, 1>>,
     <<2024, 4, 30>>, <<2024, 5, 31>>, <<2024, 6, 1>>, <<2024, 6, 30>>, <<2024, 7, 1>>,
     <<2024, 9, 30>>, <<2024, 10, 1>>}

CalendarTimes ==
    {<<0, 0>>, <<0, 1>>, <<5, 0>>, <<7, 30>>, <<8, 0>>, <<9, 0>>, <<13, 0>>, <<15, 30>>,
     <<16, 0>>, <<17, 0>>, <<23, 59>>}

CalendarInstants ==
    {Date(d[1], d[2], d[3], c[1], c[2]) : d \in CalendarDays, c \in CalendarTimes}

CalendarChains ==
    {FreqCall(m, <<>>, <<>>) : m \in {"Weekly", "Monthly", "Quarterly", "Yearly"}}
    \cup {FreqCall("WeeklyOn", <<d>>, <<T0800>>) : d \in 0..6}
    \cup {FreqCall("WeeklyOn", <<4>>, <<T1530>>),
          FreqCall("MonthlyOn", <<4>>, <<T1530>>),
          FreqCall("MonthlyOn", <<29>>, <<T1530>>),
          FreqCall("MonthlyOn", <<31>>, <<T0000>>),
          FreqCall("TwiceMonthly", <<1, 16>>, <<T1300>>),
          FreqCall("TwiceMonthly", <<29, 30>>, <<T0000>>),
          FreqCall("LastDayOfMonth", <<>>, <<T1530>>),
          FreqCall("LastDayOfMonth", <<>>, <<T0000>>),
          FreqCall("YearlyOn", <<6, 1>>, <<T1700>>),
          FreqCall("YearlyOn", <<2, 29>>, <<T1530>>),
          FreqCall("YearlyOn", <<1, 1>>, <<T0000>>)}

SpecCalendar == InitCadence(CalendarInstants, CalendarChains) /\ [][NextCadence]_vars

\* ---- the constraints: one builder chain, a frequency method, then
\* ---- constraint methods in any order and number, then Call
\* the length of limit.DaysOfWeek in the builder chains of the constraints
MaxWeekdays == 6

\* a Wednesday and a Saturday
LimitDays == {<<2024, 2, 28>>, <<2024, 3, 2>>}

LimitTimes == {<<0, 0>>, <<8, 59>>, <<9, 0>>, <<13, 0>>, <<17, 0>>, <<17, 1>>, <<23, 59>>}

LimitInstants ==
    {Date(d[1], d[2], d[3], c[1], c[2]) : d \in LimitDays, c \in LimitTimes}

LimitFreqs == {FreqCall("EveryMinute", <<>>, <<>>), FreqCall("Hourly", <<>>, <<>>)}

LimitCalls ==
    {LimitCall("Weekdays", <<>>, <<>>, "nil"),
     LimitCall("Weekends", <<>>, <<>>, "nil"),
     LimitCall("Wednesdays", <<>>, <<>>, "nil"),
     LimitCall("Between", <<>>, <<T0900, T1700>>, "nil"),
     LimitCall("Between", <<>>, <<T1700, T0900>>, "nil"),
     LimitCall("Between", <<>>, <<T0000, T2359>>, "nil"),
     LimitCall("UnlessBetween", <<>>, <<T0900, T1700>>, "nil"),
     LimitCall("UnlessBetween", <<>>, <<T1700, T0900>>, "nil"),
     LimitCall("When", <<>>, <<>>, "true"),
     LimitCall("When", <<>>, <<>>, "false"),
     LimitCall("When", <<>>, <<>>, "panic")}

InitLimit ==
    /\ \E t \in LimitInstants : NewScheduler(t, UTC)
    /\ trigger = NoTrigger

\* Call has returned, or has let a panic through
CallEnded == pc \in {"launched", "skipped", "raised"}

NextLimit ==
    \/ \E g \in LimitFreqs : pc = "NewScheduler" /\ Frequency(g)
    \/ \E c \in LimitCalls :
          pc # "NewScheduler" /\ ~CallEnded /\ ConstraintUpTo(c, MaxWeekdays)
    \/ pc # "NewScheduler" /\ ~CallEnded /\ Call("return")

SpecLimit == InitLimit /\ [][NextLimit]_vars

\* ---- the window bounds: a frequency method, Between and UnlessBetween with
\* ---- well-formed and malformed bounds, then Call
ParseBounds ==
    {TBad, TA1, T1B, T11, TNoColon, TTwoColons, THourOnly, TBeforeMidnight, T0900, T1700}

ParseInstants ==
    {Date(2024, 2, 29, c[1], c[2]) :
        c \in {<<0, 0>>, <<0, 1>>, <<1, 1>>, <<8, 59>>, <<9, 0>>, <<17, 0>>, <<17, 1>>}}

ParseCalls ==
    {LimitCall(m, <<>>, <<start, end>>, "nil") :
        m \in {"Between", "UnlessBetween"}, start \in ParseBounds, end \in ParseBounds}

InitParse ==
    /\ \E t \in ParseInstants : NewScheduler(t, UTC)
    /\ trigger = NoTrigger

NextParse ==
    \/ pc = "NewScheduler" /\ Frequency(FreqCall("EveryMinute", <<>>, <<>>))
    \/ \E c \in ParseCalls : pc # "NewScheduler" /\ ~CallEnded /\ Constraint(c)
    \/ pc # "NewScheduler" /\ ~CallEnded /\ Call("return")

SpecParse == InitParse /\ [][NextParse]_vars

\* ---- the locations: every kind of operation, Timezone and Start included,
\* ---- at an instant whose calendar day depends on the location
ZoneInstants == {Date(2023, 12, 31, 16, 0)}

ZoneFreqs == {FreqCall("EveryMinute", <<>>, <<>>), FreqCall("Yearly", <<>>, <<>>)}

ZoneLimits == {LimitCall("Sundays", <<>>, <<>>, "nil")}

InitZone ==
    /\ \E t \in ZoneInstants, loc \in Locations : NewScheduler(t, loc)
    /\ trigger = NoTrigger

NextZone ==
    \/ \E g \in ZoneFreqs : Frequency(g)
    \/ \E c \in ZoneLimits : Constraint(c)
    \/ \E loc \in Locations : Timezone(loc)
    \/ Call("return")
    \/ StartBegin
    \/ StartReturn
    \/ \E i \in 1..MaxTasks : TaskRun(i)
    \/ \E i \in 1..MaxTasks : TaskExit(i)
    \/ \E i \in 1..MaxTasks : TaskDone(i)
    \/ \E i \in 1..MaxTasks : TaskDecrement(i)
    \/ \E i \in 1..MaxTasks : TaskRecover(i)

SpecZone == InitZone /\ [][NextZone]_vars

\* ---- no time window: at every minute of a day, a frequency method,
\* ---- constraint methods other than Between and UnlessBetween, then Call
OpenCalls ==
    {LimitCall("Thursdays", <<>>, <<>>, "nil"),
     LimitCall("Wednesdays", <<>>, <<>>, "nil"),
     LimitCall("When", <<>>, <<>>, "false")}

InitOpen ==
    /\ \E t \in DayMinutes : NewScheduler(t, UTC)
    /\ trigger = NoTrigger

NextOpen ==
    \/ pc = "NewScheduler" /\ Frequency(FreqCall("EveryMinute", <<>>, <<>>))
    \/ \E c \in OpenCalls : pc # "NewScheduler" /\ ~CallEnded /\ Constraint(c)
    \/ pc # "NewScheduler" /\ ~CallEnded /\ Call("return")

SpecOpen == InitOpen /\ [][NextOpen]_vars

\* ---- the faults: launches of bodies that end in every way, and the
\* ---- deferred function of each goroutine
InitFault ==
    /\ NewScheduler(Date(2024, 2, 29, 15, 30), UTC)
    /\ trigger = NoTrigger

NextFault ==
    \/ pc = "NewScheduler" /\ Frequency(FreqCall("EveryMinute", <<>>, <<>>))
    \/ \E k \in FaultKinds : pc # "NewScheduler" /\ Call(k)
    \/ \E i \in 1..MaxTasks : TaskRun(i)
    \/ \E i \in 1..MaxTasks : TaskExit(i)
    \/ \E i \in 1..MaxTasks : TaskDone(i)
    \/ \E i \in 1..MaxTasks : TaskDecrement(i)
    \/ \E i \in 1..MaxTasks : TaskRecover(i)

SpecFault == InitFault /\ [][NextFault]_vars

-----------------------------------------------------------------------------
(* The claims.                                                             *)

\* a step of Call or CallFunc
CallStep == \E k \in Kinds : Call(k)

\* C1: Call (and CallFunc) starts exactly one goroutine for the task when
\* isTimeMatched() and checkLimit() both hold at the call, and none otherwise;
\* on the failing path the in-flight counter and the WaitGroup are unchanged.
C1_CallLaunchesIffMatched ==
    [][CallStep =>
         IF isTimeMatched(next, now) /\ checkLimit(limit, now)
         THEN /\ Len(tasks') = Len(tasks) + 1
              /\ SubSeq(tasks', 1, Len(tasks)) = tasks
              /\ tasks'[Len(tasks')].st = "pending"
              /\ count' = count + 1
              /\ wg' = wg + 1
         ELSE /\ tasks' = tasks
              /\ count' = count
              /\ wg' = wg]_vars

\* a Call launched under a weekday filter, a time window and a predicate
C1_Witness ==
    /\ pc = "launched"
    /\ Len(tasks) = 1
    /\ count = 1
    /\ limit.DaysOfWeek # <<>>
    /\ limit.IsBetween
    /\ limit.When = "true"

\* C7: frequency methods do not compose: the Target after a frequency method
\* G, whatever frequency methods were called before it, is the Target G
\* yields on a freshly constructed scheduler with the same now.
C7_LastFrequencyWins ==
    [][\A g \in AllFreqs : Frequency(g) => next' = Resolve(g, ZeroTick, now)]_vars

\* a frequency method called right after one that had set omit
C7_Witness ==
    /\ chain >= 2
    /\ pc = "EveryTwoMinutes"
    /\ ~next.Omit
    /\ Minute(now) = 31

\* C8: Call and CallFunc modify neither the Target nor the constraint set.
C8_CallKeepsTargetAndLimit ==
    [][CallStep => next' = next /\ limit' = limit]_vars

\* a second launch under the constraints that the first one passed
C8_Witness ==
    /\ pc = "launched"
    /\ Len(tasks) = 2
    /\ limit.DaysOfWeek # <<>>
    /\ limit.StartTime # <<>>
    /\ limit.When = "true"
    /\ next # ZeroTick

\* the N of an every-N-minutes method
EveryN(m) ==
    CASE m = "EveryMinute" -> 1
      [] m = "EveryTwoMinutes" -> 2
      [] m = "EveryThreeMinutes" -> 3
      [] m = "EveryFourMinutes" -> 4
      [] m = "EveryFiveMinutes" -> 5
      [] m = "EveryTenMinutes" -> 10
      [] m = "EveryFifteenMinutes" -> 15
      [] m = "EveryThirtyMinutes" -> 30

\* C9: after the every-N-minutes method the Target is now truncated to the
\* hour, with minute = now.minute when now.minute % N = 0 and 0 otherwise,
\* omit is not set, and isTimeMatched() holds iff now.minute % N = 0.
C9_EveryNMinutes ==
    [][\A g \in MinuteFreqs :
         Frequency(g) =>
           /\ next' = [Year |-> Year(now), Month |-> Month(now), Day |-> Day(now),
                       Hour |-> Hour(now),
                       Minute |-> IF Minute(now) % EveryN(g.m) = 0 THEN Minute(now) ELSE 0,
                       Omit |-> FALSE]
           /\ isTimeMatched(next', now) <=> (Minute(now) % EveryN(g.m) = 0)]_vars

\* EveryThirtyMinutes at a quarter past: the minute stays 0 and nothing matches
C9_Witness ==
    /\ pc = "EveryThirtyMinutes"
    /\ Minute(now) = 15
    /\ next.Minute = 0
    /\ ~isTimeMatched(next, now)

\* the body of task i has ended: it returned or it panicked
BodyEnded(i) == tasks[i].st \notin {"pending", "running"}

\* C2: Start returns only after the body of every task launched before it
\* has ended; it never returns while a launched body is pending or running.
C2_StartWaitsForBodies ==
    pc = "StartReturned" => \A i \in 1..Len(tasks) : BodyEnded(i)

\* Start has returned after two launches, one of them of a panicking task
C2_Witness ==
    /\ pc = "StartReturned"
    /\ Len(tasks) >= 2
    /\ \E i \in 1..Len(tasks) : tasks[i].kind = "panic"
    /\ \E i \in 1..Len(tasks) : tasks[i].kind = "return"

\* C3: at the moment Start returns the in-flight counter is 0.
C3_CounterZeroWhenStartReturns ==
    pc = "StartReturned" => count = 0

\* a step of the goroutine of task i after its body has begun
TaskStep(i) == TaskExit(i) \/ TaskDone(i) \/ TaskDecrement(i) \/ TaskRecover(i)

\* C4: a panic of a task body stays in the goroutine of the task: the process
\* is not aborted, the step changes no other task, and the WaitGroup and the
\* counter are decremented for a panicking task as for a returning one.
C4_PanicIsolated ==
    [][/\ ~crashed'
       /\ wg' = Cardinality({i \in 1..Len(tasks') :
                               tasks'[i].st \in {"pending", "running", "exited"}})
       /\ count' = Cardinality({i \in 1..Len(tasks') :
                                  tasks'[i].st \in {"pending", "running", "exited",
                                                    "signalled"}})
       /\ \A i \in 1..Len(tasks) :
            TaskStep(i) =>
                /\ Len(tasks') = Len(tasks)
                /\ \A j \in 1..Len(tasks) : j # i => tasks'[j] = tasks[j]
                /\ pc' = pc]_vars

\* a task has faulted while a sibling is still running
C4_Witness ==
    /\ ~crashed
    /\ \E i \in 1..Len(tasks) : tasks[i].st = "faulted" /\ tasks[i].errs = 1
    /\ \E j \in 1..Len(tasks) : tasks[j].st = "running"

\* no launched task has a body that never terminates
AllTerminate == \A i \in 1..Len(tasks) : tasks[i].kind # "forever"

\* C5: under fair scheduling Start returns iff every launched body terminates:
\* it returns when all do, at once when nothing was launched, and never when
\* one body does not terminate.
C5_StartReturnsIffBodiesEnd ==
    /\ (pc = "Start" /\ AllTerminate) ~> (pc = "StartReturned")
    /\ [][(pc = "Start" /\ ~AllTerminate) => pc' = "Start"]_vars
    /\ [](pc = "Start" /\ tasks = <<>> => ENABLED StartReturn)

\* Start has returned after every launched task ended, one of them by a panic
C5_Witness ==
    /\ pc = "StartReturned"
    /\ Len(tasks) >= 2
    /\ \A i \in 1..Len(tasks) : tasks[i].st \in {"finished", "faulted"}
    /\ \E i \in 1..Len(tasks) : tasks[i].st = "faulted"

\* C6: Call never waits for a task body: whatever the launched goroutines are
\* doing, the main goroutine can perform its next Call.
C6_CallNeverWaits ==
    (MainReady /\ Len(tasks) < MaxTasks) => ENABLED CallStep

\* two bodies run at once, one of them never terminating, and Call has returned
C6_Witness ==
    /\ pc = "launched"
    /\ Len(tasks) >= 2
    /\ \A i \in 1..Len(tasks) : tasks[i].st = "running"
    /\ \E i \in 1..Len(tasks) : tasks[i].kind = "forever"

\* the trigger has evaluated the chain and issued Call at the instant t
Evaluated(t) ==
    /\ t >= trigger.first
    /\ t < now.t \/ (t = now.t /\ pc \in {"launched", "skipped"})

\* the length in minutes of the period of the chain of the trigger
Period == IF trigger.chain.m = "Hourly" THEN 60 ELSE 1440

\* the launches made in the k-th period (hour or calendar day) of the location
FiredIn(k) == {t \in fired : (t + location) \div Period = k}

\* C10: with one evaluation and one Call per calendar minute, Hourly launches
\* exactly one task in each hour, at minute 0, and Daily exactly one task in
\* each calendar day, at 00:00.
C10_OncePerPeriod ==
    Triggered =>
        \A k \in ((trigger.first + location) \div Period)..((now.t + location) \div Period) :
            FiredIn(k) = IF Evaluated(k * Period - location)
                         THEN {k * Period - location}
                         ELSE {}

\* Daily has been evaluated over a whole calendar day and both its midnights
C10_Witness ==
    /\ Triggered
    /\ trigger.chain.m = "Daily"
    /\ now.t - trigger.first >= 1440
    /\ Cardinality(fired) = 2

-----------------------------------------------------------------------------
(* The cadences, over one evaluation of the trigger.                       *)

\* the elements of a sequence
Elems(q) == {q[i] : i \in 1..Len(q)}

\* the frequency method of the chain has resolved the Target
Resolved == Triggered /\ pc # "NewScheduler"

\* Call has been issued after the frequency method of the chain
Called == Triggered /\ pc \in {"launched", "skipped"}

\* Call has launched the task
Fires == pc = "launched" /\ Len(tasks) = 1 /\ fired = {now.t}

\* C11: HourlyAt(m1..mk) resolves omit=false with Target.hour = now.hour and
\* Target.minute = now.minute iff now.minute is one of the listed values, and
\* omit=true otherwise; the task is launched exactly at the listed minutes.
C11_HourlyAt ==
    (Resolved /\ trigger.chain.m = "HourlyAt") =>
        LET listed == Minute(now) \in Elems(trigger.chain.a)
        IN /\ next.Omit <=> ~listed
           /\ listed => next.Hour = Hour(now) /\ next.Minute = Minute(now)
           /\ Called => (Fires <=> listed)

\* HourlyAt(0, 1, 2, 3) launched the task at 15:03
C11_Witness ==
    /\ trigger.chain = FreqCall("HourlyAt", <<0, 1, 2, 3>>, <<>>)
    /\ Fires
    /\ Hour(now) = 15
    /\ Minute(now) = 3
    /\ next.Minute = 3

\* C12: EveryOddHour resolves omit=false with Target.hour = now.hour iff
\* now.hour is odd, and omit=true at every even hour, 0 included; the task is
\* launched iff now.hour is odd and now.minute is 0.
C12_EveryOddHour ==
    (Resolved /\ trigger.chain.m = "EveryOddHour") =>
        LET odd == Hour(now) \in {1, 3, 5, 7, 9, 11, 13, 15, 17, 19, 21, 23}
        IN /\ next.Omit <=> ~odd
           /\ odd => next.Hour = Hour(now)
           /\ Called => (Fires <=> (odd /\ Minute(now) = 0))

\* EveryOddHour launched the task at 23:00
C12_Witness ==
    /\ trigger.chain.m = "EveryOddHour"
    /\ Fires
    /\ Hour(now) = 23
    /\ Minute(now) = 0

\* the N of an every-N-hours method
EveryNHours(m) ==
    CASE m = "EveryTwoHours" -> 2
      [] m = "EveryThreeHours" -> 3
      [] m = "EveryFourHours" -> 4
      [] m = "EveryFiveHours" -> 5
      [] m = "EverySixHours" -> 6

\* C13: for N in {2,3,4,5,6} the every-N-hours method resolves omit=false iff
\* now.hour % N = 0, and the task is launched iff now.hour % N = 0 and
\* now.minute = 0, at no other minute of such an hour.
C13_EveryNHours ==
    (Resolved /\ trigger.chain.m \in {"EveryTwoHours", "EveryThreeHours", "EveryFourHours",
                                      "EveryFiveHours", "EverySixHours"}) =>
        LET multiple == Hour(now) % EveryNHours(trigger.chain.m) = 0
        IN /\ next.Omit <=> ~multiple
           /\ multiple => next.Hour = Hour(now)
           /\ Called => (Fires <=> (multiple /\ Minute(now) = 0))

\* EveryFiveHours launched the task at 20:00
C13_Witness ==
    /\ trigger.chain.m = "EveryFiveHours"
    /\ Fires
    /\ Hour(now) = 20
    /\ Minute(now) = 0

\* the hour and minute that a well-formed time of day denotes
Clock(s) ==
    CASE s = T0000 -> <<0, 0>>
      [] s = T0030 -> <<0, 30>>
      [] s = T0800 -> <<8, 0>>
      [] s = T0900 -> <<9, 0>>
      [] s = T1300 -> <<13, 0>>
      [] s = T1530 -> <<15, 30>>
      [] s = T1700 -> <<17, 0>>
      [] s = T1701 -> <<17, 1>>
      [] s = T2359 -> <<23, 59>>

\* the times of day that a call of DailyAt, At, TwiceDaily or TwiceDailyAt lists
ListedTimes(g) ==
    CASE g.m = "TwiceDaily" -> {<<g.a[1], 0>>, <<g.a[2], 0>>}
      [] g.m = "TwiceDailyAt" -> {<<g.a[1], g.a[3]>>, <<g.a[2], g.a[3]>>}
      [] OTHER -> {Clock(s) : s \in Elems(g.s)}

\* C14: DailyAt(t1..tk) and At match iff (now.hour, now.minute) is the hour
\* and minute of a listed time; the Target is then that pair with omit=false,
\* and omit=true otherwise.  TwiceDaily(h1,h2) lists h1:00 and h2:00, and
\* TwiceDailyAt(h1,h2,m) lists h1:m and h2:m.
C14_DailyAt ==
    (Resolved /\ trigger.chain \in DailyChains) =>
        LET hit == <<Hour(now), Minute(now)>> \in ListedTimes(trigger.chain)
        IN /\ next.Omit <=> ~hit
           /\ hit => next.Hour = Hour(now) /\ next.Minute = Minute(now)
           /\ isTimeMatched(next, now) <=> hit
           /\ Called => (Fires <=> hit)

\* TwiceDailyAt(1, 13, 15) launched the task at 13:15
C14_Witness ==
    /\ trigger.chain = FreqCall("TwiceDailyAt", <<1, 13, 15>>, <<>>)
    /\ Fires
    /\ next.Hour = 13
    /\ next.Minute = 15
    /\ ~next.Omit

\* C15: in DailyAt and At a malformed time string (not exactly one colon, or a
\* part that is not a number) counts as 00:00: the Target is the one that
\* DailyAt("00:00") resolves, for every now.
C15_MalformedIsMidnight ==
    (Resolved /\ trigger.chain \in MalformedChains) =>
        next = DailyAt(ZeroTick, now, <<T0000>>)

\* now is 00:00 on its wall clock
Midnight == Hour(now) = 0 /\ Minute(now) = 0

\* the wall clock of now shows the time of day s
AtTime(s) == <<Hour(now), Minute(now)>> = Clock(s)

\* the number of the calendar day that the Target names
TargetDay == Date(next.Year, next.Month, next.Day, 0, 0) \div 1440

\* now is on the first day of its week, month, quarter or year
OnBoundary(m) ==
    CASE m = "Weekly" -> Weekday(now) = 0
      [] m = "Monthly" -> Day(now) = 1
      [] m = "Quarterly" -> Day(now) = 1 /\ Month(now) \in {1, 4, 7, 10}
      [] m = "Yearly" -> Day(now) = 1 /\ Month(now) = 1

\* the Target names the first day of the week, month, quarter or year of now
NamesBoundary(m) ==
    CASE m = "Weekly" ->
            /\ TargetDay % 7 = 0
            /\ DayNum(now) - TargetDay \in 0..6
      [] m = "Monthly" ->
            /\ next.Year = Year(now)
            /\ next.Month = Month(now)
            /\ next.Day = 1
      [] m = "Quarterly" ->
            /\ next.Year = Year(now)
            /\ next.Month \in {1, 4, 7, 10}
            /\ Month(now) - next.Month \in 0..2
            /\ next.Day = 1
      [] m = "Yearly" ->
            /\ next.Year = Year(now)
            /\ next.Month = 1
            /\ next.Day = 1

\* C16: Weekly, Monthly, Quarterly and Yearly set the Target to 00:00 of the
\* first day of the current week (a Sunday), month, quarter or year with
\* omit=false, so the task is launched iff now is exactly that boundary.
C16_PeriodStart ==
    (Resolved /\ trigger.chain.m \in {"Weekly", "Monthly", "Quarterly", "Yearly"}) =>
        /\ ~next.Omit
        /\ next.Hour = 0
        /\ next.Minute = 0
        /\ NamesBoundary(trigger.chain.m)
        /\ Called => (Fires <=> (OnBoundary(trigger.chain.m) /\ Midnight))

\* Quarterly launched the task at 00:00 on 1 April, in the +08:00 location
C16_Witness ==
    /\ trigger.chain.m = "Quarterly"
    /\ Fires
    /\ location = Shanghai
    /\ Month(now) = 4
    /\ Day(now) = 1
    /\ Midnight

\* C17: WeeklyOn(d, t) launches the task iff the weekday of now is d and its
\* hour and minute are those of t, for every weekday d.
C17_WeeklyOn ==
    (Called /\ trigger.chain.m = "WeeklyOn") =>
        (Fires <=> (Weekday(now) = trigger.chain.a[1] /\ AtTime(trigger.chain.s[1])))

\* WeeklyOn(3, "8:00") launched the task on a Wednesday at 08:00
C17_Witness ==
    /\ trigger.chain = FreqCall("WeeklyOn", <<3>>, <<T0800>>)
    /\ Fires
    /\ Weekday(now) = 3
    /\ next.Hour = 8

\* now is on the last calendar day of its month: the next day is a first
LastDay == Day([t |-> now.t + 1440, off |-> now.off]) = 1

\* C18: MonthlyOn(d, t) launches iff the day of the month is d and the time is
\* t; TwiceMonthly(b, e, t) iff the day is b or e and the time is t;
\* LastDayOfMonth(t) iff now is on the last day of its month and the time is t.
C18_DayOfMonth ==
    /\ (Called /\ trigger.chain.m = "MonthlyOn") =>
          (Fires <=> (Day(now) = trigger.chain.a[1] /\ AtTime(trigger.chain.s[1])))
    /\ (Called /\ trigger.chain.m = "TwiceMonthly") =>
          (Fires <=> (/\ Day(now) \in {trigger.chain.a[1], trigger.chain.a[2]}
                      /\ AtTime(trigger.chain.s[1])))
    /\ (Called /\ trigger.chain.m = "LastDayOfMonth") =>
          (Fires <=> (LastDay /\ AtTime(trigger.chain.s[1])))

\* LastDayOfMonth("15:30") launched the task on 29 February
C18_Witness ==
    /\ trigger.chain = FreqCall("LastDayOfMonth", <<>>, <<T1530>>)
    /\ Fires
    /\ Month(now) = 2
    /\ Day(now) = 29

\* C19: YearlyOn(m, d, t) launches the task iff the month of now is m, its day
\* is d and its hour and minute are those of t.
C19_YearlyOn ==
    (Called /\ trigger.chain.m = "YearlyOn") =>
        (Fires <=> (/\ Month(now) = trigger.chain.a[1]
                    /\ Day(now) = trigger.chain.a[2]
                    /\ AtTime(trigger.chain.s[1])))

\* YearlyOn(6, 1, "17:00") launched the task on 1 June at 17:00
C19_Witness ==
    /\ trigger.chain = FreqCall("YearlyOn", <<6, 1>>, <<T1700>>)
    /\ Fires
    /\ Month(now) = 6
    /\ Day(now) = 1
    /\ Hour(now) = 17

\* the Target whose five fields are those of now, with omit=false
NowTick ==
    [Year |-> Year(now), Month |-> Month(now), Day |-> Day(now), Hour |-> Hour(now),
     Minute |-> Minute(now), Omit |-> FALSE]

TickFields == {"Year", "Month", "Day", "Hour", "Minute"}

\* the five fields of the Target are those of now
FieldsEqual == \A f \in TickFields : next[f] = NowTick[f]

\* C20: isTimeMatched() is false whenever Target.omit is set, whatever the
\* fields; otherwise it is true iff the year, month, day, hour and minute of
\* the Target are those of now, so that a change of any single field of a
\* matching Target makes it fail.
C20_isTimeMatched ==
    /\ isTimeMatched(next, now) <=> (~next.Omit /\ FieldsEqual)
    /\ Called => (Fires <=> (~next.Omit /\ FieldsEqual))
    /\ isTimeMatched(NowTick, now)
    /\ ~isTimeMatched([NowTick EXCEPT !.Omit = TRUE], now)
    /\ \A f \in TickFields, d \in {0 - 1, 1} :
          ~isTimeMatched([NowTick EXCEPT ![f] = @ + d], now)

\* at 00:00 EveryOddHour left a Target with the fields of now and omit set,
\* and Call launched nothing
C20_Witness ==
    /\ trigger.chain.m = "EveryOddHour"
    /\ pc = "skipped"
    /\ tasks = <<>>
    /\ next.Omit
    /\ FieldsEqual

-----------------------------------------------------------------------------
(* The constraints, over one builder chain and its Call.                   *)

\* the minute of the day of now
MinuteOfDay == Hour(now) * 60 + Minute(now)

\* the minute of the day a time of day denotes; an unset time counts as 00:00
ClockMinutes(s) == IF s = <<>> THEN 0 ELSE Clock(s)[1] * 60 + Clock(s)[2]

\* the earlier and the later end of the time window
WindowLo ==
    IF ClockMinutes(limit.StartTime) <= ClockMinutes(limit.EndTime)
    THEN ClockMinutes(limit.StartTime) ELSE ClockMinutes(limit.EndTime)

WindowHi ==
    IF ClockMinutes(limit.StartTime) <= ClockMinutes(limit.EndTime)
    THEN ClockMinutes(limit.EndTime) ELSE ClockMinutes(limit.StartTime)

\* the weekday of now is allowed by the weekday set
DayOK == limit.DaysOfWeek = <<>> \/ Weekday(now) \in Elems(limit.DaysOfWeek)

\* the minute of the day of now is allowed by the time window
WindowOK ==
    IF limit.IsBetween
    THEN WindowLo <= MinuteOfDay /\ MinuteOfDay <= WindowHi
    ELSE ~(WindowLo < MinuteOfDay /\ MinuteOfDay < WindowHi)

\* Call went past the time-window step: it launched, or it called the predicate
WindowPassed == pc = "launched" \/ whens = 1

\* C21: when the weekday set is not empty, checkLimit fails unless the weekday
\* of now is in it, whatever the window, the mode and the predicate, which is
\* not even called; an empty set restricts nothing.
C21_WeekdayFilter ==
    CallEnded =>
        /\ ~DayOK => pc = "skipped" /\ whens = 0
        /\ (DayOK /\ isTimeMatched(next, now)) => (WindowPassed <=> WindowOK)
        /\ limit.DaysOfWeek = <<>> =>
              (pc = "launched" <=>
                  (isTimeMatched(next, now) /\ WindowOK /\ limit.When \in {"nil", "true"}))

\* on a Saturday, after Weekdays, Call skipped inside the window without
\* calling the predicate
C21_Witness ==
    /\ pc = "skipped"
    /\ Weekday(now) = 6
    /\ Elems(limit.DaysOfWeek) = {1, 2, 3, 4, 5}
    /\ isTimeMatched(next, now)
    /\ WindowOK
    /\ limit.When = "true"
    /\ whens = 0

\* C22: after Between(start, end) the time-window step passes iff the minute
\* of the day of now lies in the closed interval between the two times, both
\* boundary minutes included.
C22_Between ==
    (CallEnded /\ limit.IsBetween /\ isTimeMatched(next, now) /\ DayOK) =>
        (WindowPassed <=> (WindowLo <= MinuteOfDay /\ MinuteOfDay <= WindowHi))

\* after Between("09:00", "17:00"), Call launched at 17:00
C22_Witness ==
    /\ pc = "launched"
    /\ limit.IsBetween
    /\ limit.StartTime = T0900
    /\ limit.EndTime = T1700
    /\ MinuteOfDay = 1020

\* UnlessBetween has been called
Unless == ~limit.IsBetween /\ limit.StartTime # <<>>

\* C23: after UnlessBetween(start, end) the time-window step fails iff the
\* minute of the day of now is strictly between the two times; a minute equal
\* to either passes.
C23_UnlessBetween ==
    (CallEnded /\ Unless /\ isTimeMatched(next, now) /\ DayOK) =>
        (~WindowPassed <=> (WindowLo < MinuteOfDay /\ MinuteOfDay < WindowHi))

\* after UnlessBetween("09:00", "17:00"), Call launched at 09:00
C23_Witness ==
    /\ pc = "launched"
    /\ Unless
    /\ limit.StartTime = T0900
    /\ limit.EndTime = T1700
    /\ MinuteOfDay = 540

\* the constraint set with the two times of its window exchanged
Exchanged == [limit EXCEPT !.StartTime = limit.EndTime, !.EndTime = limit.StartTime]

\* C24: the time window is insensitive to the order of its two times: the
\* window step of Call passes iff it passes with the times exchanged, so a
\* Between window written across midnight is the daytime interval [end, start].
C24_WindowOrder ==
    (CallEnded /\ isTimeMatched(next, now) /\ DayOK) =>
        /\ WindowPassed <=> inWindow(Exchanged, now)
        /\ (limit.IsBetween /\ ClockMinutes(limit.StartTime) > ClockMinutes(limit.EndTime)) =>
              (WindowPassed <=> (/\ ClockMinutes(limit.EndTime) <= MinuteOfDay
                                 /\ MinuteOfDay <= ClockMinutes(limit.StartTime)))

\* after Between("17:00", "09:00"), Call launched at 13:00
C24_Witness ==
    /\ pc = "launched"
    /\ limit.IsBetween
    /\ limit.StartTime = T1700
    /\ limit.EndTime = T0900
    /\ MinuteOfDay = 780

\* C25: Call calls the When predicate only when isTimeMatched() holds and the
\* weekday and window steps have passed, and then once; its result is that of
\* checkLimit, so a predicate that returns false prevents the launch.
C25_WhenIsLast ==
    CallEnded =>
        /\ whens = IF isTimeMatched(next, now) /\ DayOK /\ WindowOK /\ limit.When # "nil"
                   THEN 1 ELSE 0
        /\ whens = 1 => (pc = "launched" <=> limit.When = "true")
        /\ limit.When = "false" => pc = "skipped"

\* the predicate was set and returns true, and Call did not call it: the
\* Target of Hourly does not match
C25_Witness ==
    /\ pc = "skipped"
    /\ limit.When = "true"
    /\ whens = 0
    /\ ~isTimeMatched(next, now)
    /\ DayOK
    /\ WindowOK

\* the weekdays a constraint method adds
AddedDays(c) ==
    CASE c.m = "Weekdays" -> {1, 2, 3, 4, 5}
      [] c.m = "Weekends" -> {0, 6}
      [] c.m = "Wednesdays" -> {3}
      [] OTHER -> {}

\* C26: a constraint call leaves as weekday set the union of the set before
\* it and the weekdays it adds; the window and its mode are those of the last
\* Between or UnlessBetween, and the predicate that of the last When.
C26_LimitAccumulates ==
    [][\A c \in LimitCalls :
         ConstraintUpTo(c, MaxWeekdays) =>
           /\ Elems(limit'.DaysOfWeek) = Elems(limit.DaysOfWeek) \cup AddedDays(c)
           /\ IF c.m \in {"Between", "UnlessBetween"}
              THEN /\ limit'.StartTime = c.s[1]
                   /\ limit'.EndTime = c.s[2]
                   /\ limit'.IsBetween = (c.m = "Between")
              ELSE /\ limit'.StartTime = limit.StartTime
                   /\ limit'.EndTime = limit.EndTime
                   /\ limit'.IsBetween = limit.IsBetween
           /\ limit'.When = IF c.m = "When" THEN c.w ELSE limit.When]_vars

\* Wednesday has been added twice, and UnlessBetween came after a predicate
C26_Witness ==
    /\ pc = "UnlessBetween"
    /\ Len(limit.DaysOfWeek) = 6
    /\ Elems(limit.DaysOfWeek) = {1, 2, 3, 4, 5}
    /\ ~limit.IsBetween
    /\ limit.When = "false"

\* C27: when Call or CallFunc has returned, launched or not, the current time
\* is expressed in the default location given to NewScheduler, whatever
\* Timezone calls came before.
C27_CallRollsBack ==
    CallEnded => now.off = location

\* Call launched for a Target resolved after Timezone, in another hour than
\* that of the default location
C27_Witness ==
    /\ pc = "launched"
    /\ now.off = location
    /\ next.Hour # Hour(now)
    /\ next.Minute = Minute(now)

\* C29: Call never raises to its caller: whatever the Target, the constraint
\* set and the predicate do, it returns, having launched or not.
C29_CallNeverRaises ==
    pc # "raised"

\* C30: a task that has signalled the join barrier is no longer counted: the
\* in-flight counter never exceeds the number of tasks that have not signalled.
C30_DecrementBeforeSignal ==
    count <= Cardinality({i \in 1..Len(tasks) :
                            tasks[i].st \in {"pending", "running", "exited"}})

-----------------------------------------------------------------------------
(* The fault reports and the counters of the task runner.                  *)

\* the deferred function of the goroutine of task i has run to its end
Ended(i) == tasks[i].st \in {"finished", "faulted"}

\* the body of task i panics
Panics(i) == tasks[i].kind \in {"panic", "panic(nil)"}

\* C31: a task whose body panics is reported through Error exactly once, with
\* the value recovered, by the time its deferred function has ended, and never
\* more than once; a task whose body returns is never reported.
C31_PanicReportedOnce ==
    \A i \in 1..Len(tasks) :
        /\ tasks[i].errs <= 1
        /\ ~Panics(i) => tasks[i].errs = 0
        /\ (Ended(i) /\ Panics(i)) =>
              /\ tasks[i].errs = 1
              /\ tasks[i].e \in Recovered(tasks[i].kind) \ {"nil"}

\* C32: when Start has returned, the fault of every launched task whose body
\* panicked has been captured and reported: no report is still to come.
C32_FaultsReportedWhenStartReturns ==
    pc = "StartReturned" =>
        \A i \in 1..Len(tasks) : tasks[i].kind = "panic" => tasks[i].errs = 1

\* the number of launched tasks whose goroutine is at one of the positions sts
Tasks(sts) == Cardinality({i \in 1..Len(tasks) : tasks[i].st \in sts})

\* C33: the in-flight counter is never negative and never below the number of
\* launched tasks whose body has not ended; it counts each launched task once
\* from its launch to its decrement, the WaitGroup counts each once from its
\* launch to its Done and is never negative, and no body runs twice.
C33_CounterBalance ==
    /\ count >= 0
    /\ wg >= 0
    /\ count >= Tasks({"pending", "running"})
    /\ count = Len(tasks) - Tasks({"decremented", "finished", "faulted"})
    /\ wg = Len(tasks) - Tasks({"signalled", "decremented", "finished", "faulted"})
    /\ \A i \in 1..Len(tasks) :
          tasks[i].runs = IF tasks[i].st = "pending" THEN 0 ELSE 1

\* a panicking task has been decremented and signalled while the body of a
\* second one, not yet scheduled, is still counted
C33_Witness ==
    /\ Len(tasks) = 2
    /\ tasks[1].kind = "panic"
    /\ tasks[1].st = "decremented"
    /\ tasks[2].st = "pending"
    /\ count = 1
    /\ wg = 1

-----------------------------------------------------------------------------
(* The designated days of the calendar cadences.                           *)

\* now is on the day that the frequency call g designates
Designated(g) ==
    CASE g.m = "WeeklyOn" -> Weekday(now) = g.a[1]
      [] g.m = "MonthlyOn" -> Day(now) = g.a[1]
      [] g.m = "TwiceMonthly" -> Day(now) \in {g.a[1], g.a[2]}
      [] g.m = "LastDayOfMonth" -> LastDay
      [] g.m = "YearlyOn" -> Month(now) = g.a[1] /\ Day(now) = g.a[2]

\* C34: WeeklyOn, MonthlyOn, TwiceMonthly, LastDayOfMonth and YearlyOn clear
\* omit only on the day they designate: on every other day the Target keeps
\* omit=true, whatever the time of day.
C34_OmitOnOtherDays ==
    (Resolved /\ trigger.chain.m \in {"WeeklyOn", "MonthlyOn", "TwiceMonthly",
                                      "LastDayOfMonth", "YearlyOn"}) =>
        (~next.Omit => Designated(trigger.chain))

-----------------------------------------------------------------------------
(* The bounds of the time window as timeToMinutes reads them.              *)

\* the hour and minute that a time of day denotes, <<0, 0>> when it is not
\* two numbers separated by one colon
Denoted(s) ==
    CASE s = T11 -> <<1, 1>>
      [] s = T0900 -> <<9, 0>>
      [] s = T1700 -> <<17, 0>>
      [] s = TBeforeMidnight -> <<0 - 1, 30>>
      [] OTHER -> <<0, 0>>

\* the minute of the day that a bound of the window stands for
BoundMinute(s) == Denoted(s)[1] * 60 + Denoted(s)[2]

\* the smaller and the larger of two numbers
Least(a, b) == IF a <= b THEN a ELSE b
Most(a, b) == IF a <= b THEN b ELSE a

\* C35: timeToMinutes yields hour 0 and minute 0 for a string that is not two
\* numbers separated by one colon, and the two numbers otherwise; Call with
\* such a bound in Between or UnlessBetween returns, and treats a malformed
\* bound as minute 0 of the day.
C35_MalformedBoundIsZero ==
    CallEnded =>
        LET lo == Least(BoundMinute(limit.StartTime), BoundMinute(limit.EndTime))
            hi == Most(BoundMinute(limit.StartTime), BoundMinute(limit.EndTime))
        IN /\ \A s \in {limit.StartTime, limit.EndTime} :
                 timeToMinutes(s) = [hour |-> Denoted(s)[1], minute |-> Denoted(s)[2]]
           /\ pc \in {"launched", "skipped"}
           /\ pc = "launched" <=>
                 IF limit.IsBetween
                 THEN lo <= MinuteOfDay /\ MinuteOfDay <= hi
                 ELSE ~(lo < MinuteOfDay /\ MinuteOfDay < hi)

\* after Between("1:b", "09:00"), Call launched at 00:01: the bound 1:b
\* stands for 00:00, not for 01:00
C35_Witness ==
    /\ pc = "launched"
    /\ limit.IsBetween
    /\ limit.StartTime = T1B
    /\ limit.EndTime = T0900
    /\ MinuteOfDay = 1

-----------------------------------------------------------------------------
(* The clock context and the locations.                                    *)

\* a step of Timezone
TimezoneStep == \E loc \in Locations : Timezone(loc)

\* C36: s.now changes only in Timezone and in the rollback of Call, and then
\* only in its location: whatever frequency, constraint, Timezone, Call and
\* Start operations are performed, it denotes the instant that NewScheduler
\* captured, with the wall clock of the current location.
C36_ClockOnlyByTimezone ==
    [][/\ now'.t = now.t
       /\ now'.t \in ZoneInstants
       /\ now' # now => (TimezoneStep \/ CallStep)
       /\ \A loc \in Locations :
            (pc' = "Timezone" /\ Timezone(loc)) =>
                (now'.off = loc /\ Local(now') = now.t + loc)]_vars

\* after a launch, Timezone shows the captured instant on the next calendar
\* day, in the next year, of the other location
C36_Witness ==
    /\ pc = "Timezone"
    /\ location = UTC
    /\ now.off = Shanghai
    /\ now.t = Date(2023, 12, 31, 16, 0)
    /\ <<Year(now), Month(now), Day(now), Hour(now)>> = <<2024, 1, 1, 0>>
    /\ tasks # <<>>

\* C37: Timezone changes neither the Target nor the constraint set; a
\* frequency method resolves the Target in the location now is in when it is
\* called, and Call compares the Target as it stands with now in the location
\* of the moment, so a Target resolved before Timezone is matched against the
\* fields of now in the new location.
C37_TimezoneKeepsTarget ==
    [][/\ (pc' = "Timezone" /\ TimezoneStep) => (next' = next /\ limit' = limit)
       /\ \A g \in ZoneFreqs :
            (pc' = g.m /\ Frequency(g)) => next' = Resolve(g, ZeroTick, now)
       /\ (pc' \in {"launched", "skipped"} /\ CallStep) =>
            /\ next' = next
            /\ pc' = "launched" <=> (isTimeMatched(next, now) /\ checkLimit(limit, now))]_vars

\* Call skipped without any constraint although the Target of EveryMinute is
\* the minute of now in the default location: Timezone came between the two
C37_Witness ==
    /\ pc = "skipped"
    /\ limit = ZeroLimit
    /\ now.off = location
    /\ next = EveryMinute(ZeroTick, now)
    /\ isTimeMatched(next, now)

\* C38: as long as the Target is the one of NewScheduler, no frequency method
\* having been called, Call launches nothing, at any instant, in any location
\* and under any constraint set.
C38_NoFrequencyNoLaunch ==
    next = ZeroTick =>
        /\ tasks = <<>>
        /\ count = 0
        /\ wg = 0
        /\ fired = {}
        /\ pc # "launched"

\* Call skipped on a scheduler with constraints and no frequency method
C38_Witness ==
    /\ pc = "skipped"
    /\ next = ZeroTick
    /\ limit.DaysOfWeek # <<>>
    /\ checkLimit(limit, now)

-----------------------------------------------------------------------------
(* The constraint set without a time window.                               *)

\* neither Between nor UnlessBetween has been called
NoWindow == limit.StartTime = <<>> /\ limit.EndTime = <<>> /\ ~limit.IsBetween

\* C39: when neither Between nor UnlessBetween has been called, the window
\* step of checkLimit passes at every minute of the day: a Call whose Target
\* matches and whose weekday is allowed goes on to the predicate, and launches
\* when the weekday set is empty and no predicate is set.
C39_NoWindowAlwaysPasses ==
    (CallEnded /\ NoWindow /\ isTimeMatched(next, now)) =>
        /\ inWindow(limit, now)
        /\ DayOK => WindowPassed
        /\ (limit.DaysOfWeek = <<>> /\ limit.When = "nil") => pc = "launched"
        /\ pc = "launched" <=> (DayOK /\ limit.When = "nil")

\* Call launched at 23:59 on a scheduler without constraints
C39_Witness ==
    /\ pc = "launched"
    /\ limit = ZeroLimit
    /\ MinuteOfDay = 1439
    /\ Len(tasks) = 1

====
